---------------------------- MODULE Spec2Model ----------------------------
(***************************************************************************)
(* Model of the Confluence MCP server: the lazily initialised CrewAI crew  *)
(* and the /invoke endpoint of main.py, and the seven tool wrappers of     *)
(* confluence_tools.py.                                                    *)
(***************************************************************************)
EXTENDS Naturals, Sequences, FiniteSets

(* ------------------------------- bounds -------------------------------- *)

\* number of request threads serving POST /invoke
NumThreads == 2
\* total number of POST /invoke requests in one behaviour
MaxRequests == 3

Threads == 1..NumThreads

\* request.prompt values: the empty prompt and two distinct non-empty ones
Prompts == {"", "prompt A", "prompt B"}

(* ---------------------------- Python values ---------------------------- *)

\* Optional[str] = None
NoneStr == "<None>"

\* Python truthiness of an Optional[str]: None and "" are falsy
Truthy(s) == s # NoneStr /\ s # ""

(* ------------------------------ main.py -------------------------------- *)

VARIABLES
    confluence_client,  \* BOOLEAN: the module-level client was constructed
    confluence_crew,    \* the global crew: CrewNone or a Crew record
    lock,               \* crew_initialization_lock: Unlocked or its holder
    pc,                 \* per thread: the line of main.py it is about to run
    prompt,             \* per thread: request.prompt of its current request
    response,           \* per thread: the HTTP response of its last request
    requests,           \* POST /invoke requests received so far
    constructed,        \* history: Crew(...) constructions completed
    llmFailures,        \* history: LLM(...) constructions that raised
    called_init,        \* history, per thread: this call ran _initialize_crew
    attempts,           \* history, per thread: LLM(...) calls in this call
    llmFailed,          \* history, per thread: LLM(...) raised in this call
    wiki,               \* the remote Confluence site: pages, spaces, comments
    last                \* the last tool invocation: arguments, result, remote calls

crewVars == <<confluence_crew, lock, pc, prompt, response, requests,
              constructed, llmFailures, called_init, attempts, llmFailed>>
toolVars == <<wiki, last>>
vars == <<confluence_client, crewVars, toolVars>>

\* confluence_crew = None
CrewNone == [id |-> 0, agents |-> <<>>, tasks |-> <<>>]

\* the lock is free
Unlocked == 0

\* Agent(...), Task(...), Crew(...): the n-th crew constructed
Crew(n) ==
    [id |-> n,
     agents |-> <<"Confluence Expert">>,
     tasks |-> <<[description |-> "Run a prompt given by the user.",
                  agent |-> "Confluence Expert"]>>]

\* faulty variant: the lock is not released when _initialize_crew returns
KeptBy(t) == t

\* the `with crew_initialization_lock` block is left: the lock is released
ReleasedBy(t) == Unlocked

\* faulty variant: no second check of confluence_crew once the lock is held
NoRecheck == FALSE

\* `if confluence_crew is not None: return` under the lock
AlreadyInitialized == confluence_crew # CrewNone

\* the response of a request that has not been answered
NoResponse == [status |-> 0, kind |-> "none", arg |-> ""]

\* return {"response": result}
Ok(kind, arg) == [status |-> 200, kind |-> kind, arg |-> arg]

\* raise HTTPException(status_code=..., detail=...)
HTTPException(status, detail) == [status |-> status, kind |-> "detail", arg |-> detail]

\* except Exception as e: raise HTTPException(status_code=500, detail=str(e))
ExceptHandler(e) == HTTPException(500, e)

\* str() of HTTPException(status_code=400, detail="Prompt cannot be empty.")
PromptEmpty == "400: Prompt cannot be empty."

\* `if not request.prompt: raise HTTPException(400, ...)` inside the try block,
\* whose `except Exception` clause catches it
EmptyPromptResponse == ExceptHandler(PromptEmpty)

ErrClient == "Error: The Confluence client is not initialized. Please check your .env file."
ErrCrew == "Error: The CrewAI crew is not initialized."

(* ------------------------ confluence_tools.py -------------------------- *)

\* the page ids, space keys the remote site can hold
PageIds == {"101"}
SpaceKeys == {"DEV", "NB"}

\* page ids the agent passes: the site's page and an id the site never holds
PageArgs == {"101", "999"}

\* HTTP statuses a failing remote call answers with
Statuses == {404, 409, 500}

\* tool arguments the agent passes
TitleArgs == {NoneStr, "T1"}
BodyArgs == {"", "B1"}
QueryArgs == {NoneStr, "B0"}
SpaceArgs == {"", "DEV"}

\* no page under this id
NoPage == [exists |-> FALSE, title |-> "", body |-> "", space |-> ""]

Page(title, body, space) == [exists |-> TRUE, title |-> title, body |-> body, space |-> space]

\* the site before the first tool call: one page in one space
InitWiki ==
    [pages |-> [id \in PageIds |-> Page("T0", "B0", "DEV")],
     spaces |-> {"DEV"},
     comments |-> {}]

\* what the environment does to one tool invocation: the shape of the ApiError
\* the client library raises (with .response and .text, with .response only, with
\* neither), and a fault (of class `type`, answering `status`) at remote call
\* number `at` (0: no fault)
Shapes == {<<TRUE, TRUE>>, <<TRUE, FALSE>>, <<FALSE, FALSE>>}

Env(at, type, status, shape) ==
    [at |-> at, type |-> type, status |-> status,
     has_response |-> shape[1], has_text |-> shape[2]]

\* the environments of a tool that makes at most n remote calls
Envs(n) ==
    {Env(0, "none", 0, s) : s \in Shapes}
      \cup {Env(at, "ApiError", st, s) :
               at \in 1..n, st \in Statuses, s \in Shapes}
      \cup {Env(at, "Exception", 0, <<FALSE, FALSE>>) :
               at \in 1..n}

NoExc == [type |-> "none", status |-> 0, has_response |-> FALSE, has_text |-> FALSE]

\* atlassian.errors.ApiError answering `status`, in the shape the library gives it
ApiError(status, env) ==
    [type |-> "ApiError", status |-> status,
     has_response |-> env.has_response, has_text |-> env.has_text]

\* the fault the environment injects
Injected(env) ==
    [type |-> env.type, status |-> env.status,
     has_response |-> env.has_response, has_text |-> env.has_text]

\* outcomes of one remote call
Done(value, w) == [ok |-> TRUE, exc |-> NoExc, value |-> value, wiki |-> w]
Failed(exc, w) == [ok |-> FALSE, exc |-> exc, value |-> NoPage, wiki |-> w]

RECURSIVE SetToSeq(_)
\* a list of the ids in S
SetToSeq(S) ==
    IF S = {} THEN <<>>
    ELSE LET x == CHOOSE y \in S : TRUE
         IN <<x>> \o SetToSeq(S \ {x})

\* the Confluence site's answer to one call of the client
Site(op, args, w, env) ==
    CASE op = "get_page_by_id" ->
           IF args[1] \in PageIds /\ w.pages[args[1]].exists
             THEN Done(w.pages[args[1]], w)
             ELSE Failed(ApiError(404, env), w)
      [] op = "cql" ->
           Done({id \in PageIds :
                    /\ w.pages[id].exists
                    /\ Truthy(args[1]) => w.pages[id].body = args[1]
                    /\ Truthy(args[2]) => w.pages[id].space = args[2]}, w)
      [] op = "create_page" ->
           IF args[1] \notin w.spaces
             THEN Failed(ApiError(404, env), w)
             ELSE LET id == CHOOSE i \in PageIds : ~w.pages[i].exists
                  IN Done(id, [w EXCEPT !.pages[id] = Page(args[2], args[3], args[1])])
      [] op = "remove_page" ->
           IF args[1] \in PageIds /\ w.pages[args[1]].exists
             THEN Done(NoPage, [w EXCEPT !.pages[args[1]] = NoPage,
                                         !.comments = {c \in @ : c[1] # args[1]}])
             ELSE Failed(ApiError(404, env), w)
      [] op = "update_page" ->
           IF args[1] \in PageIds /\ w.pages[args[1]].exists
             THEN Done(NoPage, [w EXCEPT !.pages[args[1]].title = args[2],
                                         !.pages[args[1]].body = args[3]])
             ELSE Failed(ApiError(404, env), w)
      [] op = "add_comment" ->
           IF args[1] \in PageIds /\ w.pages[args[1]].exists
             THEN Done(NoPage, [w EXCEPT !.comments = @ \cup {<<args[1], args[2]>>}])
             ELSE Failed(ApiError(404, env), w)
      [] op = "create_space" ->
           IF args[1] \in w.spaces
             THEN Failed(ApiError(409, env), w)
             ELSE Done(NoPage, [w EXCEPT !.spaces = @ \cup {args[1]}])

\* confluence_client.<op>(*args), the n-th remote call of the invocation
Remote(op, args, w, n, env) ==
    IF env.at = n THEN Failed(Injected(env), w) ELSE Site(op, args, w, env)

\* the record of one remote call in the invocation's log
\* (got: the title and body a successful get_page_by_id returned)
Call(op, args, r) ==
    [op |-> op, args |-> args, ok |-> r.ok, exc |-> r.exc,
     got |-> IF r.ok /\ op = "get_page_by_id" THEN <<r.value.title, r.value.body>> ELSE <<>>]

\* a tool returns text / an exception leaves the tool
Return(msg, arg) == [kind |-> "return", msg |-> msg, arg |-> arg]
Raise(name) == [kind |-> "raise", msg |-> name, arg |-> <<>>]

\* what one tool invocation did: its result, its remote calls, the site after it
Outcome(result, calls, w) == [result |-> result, calls |-> calls, wiki |-> w]

\* if not confluence_client: return "Error: ..."
Disabled ==
    Return("Error: Confluence client is not initialized. Check your .env configuration.", <<>>)

\* the handlers of a tool's try block:
\*   except ApiError as e:
\*       if e.response.status_code == <status>: return <on_status>
\*       return f"... Details: {e.text}"
\*   except Exception as e: return f"An unexpected error occurred ..."
\* an ApiError without .response or .text makes the handler itself raise
\* AttributeError, which no clause of the same try statement catches
Except(e, status, on_status, generic, unexpected) ==
    IF e.type = "ApiError"
      THEN IF ~e.has_response THEN Raise("AttributeError")
           ELSE IF e.status = status THEN on_status
           ELSE IF ~e.has_text THEN Raise("AttributeError")
           ELSE generic
      ELSE unexpected

PageNotFound(page_id) ==
    Return("Error: Page with ID '{page_id}' was not found. Please provide a correct page ID.",
           <<page_id>>)

\* lines 25-45
get_page_details(page_id, w, env) ==
    IF ~confluence_client THEN Outcome(Disabled, <<>>, w)
    ELSE
    LET r1 == Remote("get_page_by_id", <<page_id, "body.storage,space">>, w, 1, env)
        c1 == <<Call("get_page_by_id", <<page_id, "body.storage,space">>, r1)>>
    IN IF r1.ok
         THEN Outcome(Return("Successfully retrieved Confluence page details.",
                             <<r1.value.title, r1.value.space, r1.value.body>>), c1, r1.wiki)
         ELSE Outcome(Except(r1.exc, 404, PageNotFound(page_id),
                        Return("Error: An API error occurred while retrieving page '{page_id}'.",
                               <<page_id>>),
                        Return("An unexpected error occurred while retrieving page '{page_id}'",
                               <<page_id>>)), c1, w)

SearchUsage == Return("Error: You must provide either a search query or a space key.", <<>>)

\* lines 58-62: cql_parts
cql_parts(query, space_key) ==
    <<"type = page">> \o (IF Truthy(query) THEN <<query>> ELSE <<>>)
                      \o (IF Truthy(space_key) THEN <<space_key>> ELSE <<>>)

\* lines 48-81
search_pages(query, space_key, w, env) ==
    IF ~confluence_client THEN Outcome(Disabled, <<>>, w)
    ELSE IF Len(cql_parts(query, space_key)) = 1 THEN Outcome(SearchUsage, <<>>, w)
    ELSE
    LET a1 == <<query, space_key, "50">>
        r1 == Remote("cql", a1, w, 1, env)
        c1 == <<Call("cql", a1, r1)>>
    IN IF r1.ok
         THEN IF r1.value = {}
                THEN Outcome(Return("No pages found for the search criteria.", <<>>), c1, r1.wiki)
                ELSE Outcome(Return("Found the following pages:", SetToSeq(r1.value)), c1, r1.wiki)
         ELSE Outcome(Return("An unexpected error occurred while searching for pages", <<>>),
                      c1, w)

\* lines 84-108
create_page(space_key, title, body, parent_page_id, w, env) ==
    IF ~confluence_client THEN Outcome(Disabled, <<>>, w)
    ELSE
    LET a1 == <<space_key, title, body, parent_page_id>>
        r1 == Remote("create_page", a1, w, 1, env)
        c1 == <<Call("create_page", a1, r1)>>
    IN IF r1.ok
         THEN Outcome(Return("Successfully created a new Confluence page!",
                             <<title, r1.value>>), c1, r1.wiki)
         ELSE Outcome(Except(r1.exc, 404,
                        Return("Error: Space with key '{space_key}' was not found.", <<space_key>>),
                        Return("Error: An API error occurred while creating page.", <<>>),
                        Return("An unexpected error occurred while creating a page", <<>>)),
                      c1, w)

\* faulty variant: the page is fetched before it is removed
delete_page_fetches_first(page_id, w, env) ==
    IF ~confluence_client THEN Outcome(Disabled, <<>>, w)
    ELSE
    LET r0 == Remote("get_page_by_id", <<page_id>>, w, 1, env)
        c0 == <<Call("get_page_by_id", <<page_id>>, r0)>>
        r1 == Remote("remove_page", <<page_id>>, r0.wiki, 2, env)
        c1 == c0 \o <<Call("remove_page", <<page_id>>, r1)>>
    IN IF ~r0.ok THEN Outcome(PageNotFound(page_id), c0, w)
       ELSE IF ~r1.ok THEN Outcome(PageNotFound(page_id), c1, w)
       ELSE Outcome(Return("Successfully deleted page with ID '{page_id}'.", <<page_id>>),
                    c1, r1.wiki)

\* lines 111-127
delete_page(page_id, w, env) ==
    IF ~confluence_client THEN Outcome(Disabled, <<>>, w)
    ELSE
    LET r1 == Remote("remove_page", <<page_id>>, w, 1, env)
        c1 == <<Call("remove_page", <<page_id>>, r1)>>
    IN IF r1.ok
         THEN Outcome(Return("Successfully deleted page with ID '{page_id}'.", <<page_id>>),
                      c1, r1.wiki)
         ELSE Outcome(Except(r1.exc, 404, PageNotFound(page_id),
                        Return("Error: An API error occurred while deleting page '{page_id}'.",
                               <<page_id>>),
                        Return("An unexpected error occurred while deleting page '{page_id}'",
                               <<page_id>>)), c1, w)

UpdateUsage ==
    Return("Error: You must provide either a new title or a new body to update the page.", <<>>)

\* faulty variant: the argument is written as given, the fetched value never fills in
MergeNoFill(new, current) == new

\* lines 146-147: updated = new if new else current
Merge(new, current) == IF Truthy(new) THEN new ELSE current

\* the except clauses of update_page, lines 159-164
UpdateExcept(e, page_id) ==
    Except(e, 404, PageNotFound(page_id),
           Return("Error: An API error occurred while updating page '{page_id}'.", <<page_id>>),
           Return("An unexpected error occurred while updating page '{page_id}'", <<page_id>>))

\* faulty variant: the arguments are written as given before anything is fetched
update_page_try_writes_first(page_id, title, body, w, env) ==
    LET a1 == <<page_id, title, body, "storage">>
        r1 == Remote("update_page", a1, w, 1, env)
        c1 == <<Call("update_page", a1, r1)>>
        r2 == Remote("get_page_by_id", <<page_id>>, r1.wiki, 2, env)
        c2 == c1 \o <<Call("get_page_by_id", <<page_id>>, r2)>>
    IN IF ~r1.ok THEN Outcome(UpdateExcept(r1.exc, page_id), c1, r1.wiki)
       ELSE IF ~r2.ok THEN Outcome(UpdateExcept(r2.exc, page_id), c2, r2.wiki)
       ELSE Outcome(Return("Successfully updated page with ID '{page_id}'.",
                           <<page_id, title>>), c2, r2.wiki)

\* lines 140-164: the try block of update_page
update_page_try(page_id, title, body, w, env) ==
    LET r1 == Remote("get_page_by_id", <<page_id>>, w, 1, env)
        c1 == <<Call("get_page_by_id", <<page_id>>, r1)>>
        r2 == Remote("get_page_by_id", <<page_id, "body.storage">>, r1.wiki, 2, env)
        c2 == c1 \o <<Call("get_page_by_id", <<page_id, "body.storage">>, r2)>>
        a3 == <<page_id, Merge(title, r1.value.title), Merge(body, r2.value.body), "storage">>
        r3 == Remote("update_page", a3, r2.wiki, 3, env)
        c3 == c2 \o <<Call("update_page", a3, r3)>>
        r4 == Remote("get_page_by_id", <<page_id>>, r3.wiki, 4, env)
        c4 == c3 \o <<Call("get_page_by_id", <<page_id>>, r4)>>
    IN IF ~r1.ok THEN Outcome(UpdateExcept(r1.exc, page_id), c1, r1.wiki)
       ELSE IF ~r2.ok THEN Outcome(UpdateExcept(r2.exc, page_id), c2, r2.wiki)
       ELSE IF ~r3.ok THEN Outcome(UpdateExcept(r3.exc, page_id), c3, r3.wiki)
       ELSE IF ~r4.ok THEN Outcome(UpdateExcept(r4.exc, page_id), c4, r4.wiki)
       ELSE Outcome(Return("Successfully updated page with ID '{page_id}'.",
                           <<page_id, a3[2]>>), c4, r4.wiki)

\* faulty variant: the arguments are validated before the client is checked
update_page_validates_first(page_id, title, body, w, env) ==
    IF ~(Truthy(title) \/ Truthy(body)) THEN Outcome(UpdateUsage, <<>>, w)
    ELSE IF ~confluence_client THEN Outcome(Disabled, <<>>, w)
    ELSE update_page_try(page_id, title, body, w, env)

\* faulty variant: the arguments are validated after the page has been fetched
update_page_fetches_first(page_id, title, body, w, env) ==
    IF ~confluence_client THEN Outcome(Disabled, <<>>, w)
    ELSE LET r1 == Remote("get_page_by_id", <<page_id>>, w, 1, env)
             c1 == <<Call("get_page_by_id", <<page_id>>, r1)>>
         IN IF ~r1.ok THEN Outcome(UpdateExcept(r1.exc, page_id), c1, w)
            ELSE IF ~(Truthy(title) \/ Truthy(body)) THEN Outcome(UpdateUsage, c1, w)
            ELSE update_page_try(page_id, title, body, w, env)

\* lines 130-164
update_page(page_id, title, body, w, env) ==
    IF ~confluence_client THEN Outcome(Disabled, <<>>, w)
    ELSE IF ~(Truthy(title) \/ Truthy(body)) THEN Outcome(UpdateUsage, <<>>, w)
    ELSE update_page_try(page_id, title, body, w, env)

\* line 176: f"<div>{comment_body}</div>"
formatted_comment_body(comment_body) == "<div>" \o comment_body \o "</div>"

\* the except clauses of add_comment_to_page, lines 183-188
CommentExcept(e, page_id) ==
    Except(e, 404, PageNotFound(page_id),
           Return("Error: An API error occurred while adding a comment to page '{page_id}'.",
                  <<page_id>>),
           Return("An unexpected error occurred while adding a comment to page '{page_id}'",
                  <<page_id>>))

\* lines 167-188
add_comment_to_page(page_id, comment_body, w, env) ==
    IF ~confluence_client THEN Outcome(Disabled, <<>>, w)
    ELSE
    LET a1 == <<page_id, formatted_comment_body(comment_body)>>
        r1 == Remote("add_comment", a1, w, 1, env)
        c1 == <<Call("add_comment", a1, r1)>>
        r2 == Remote("get_page_by_id", <<page_id>>, r1.wiki, 2, env)
        c2 == c1 \o <<Call("get_page_by_id", <<page_id>>, r2)>>
    IN IF ~r1.ok THEN Outcome(CommentExcept(r1.exc, page_id), c1, r1.wiki)
       ELSE IF ~r2.ok THEN Outcome(CommentExcept(r2.exc, page_id), c2, r2.wiki)
       ELSE Outcome(Return("Successfully added a comment to page with ID '{page_id}'.",
                           <<page_id>>), c2, r2.wiki)

\* lines 191-207
create_space(space_key, space_name, w, env) ==
    IF ~confluence_client THEN Outcome(Disabled, <<>>, w)
    ELSE
    LET a1 == <<space_key, space_name>>
        r1 == Remote("create_space", a1, w, 1, env)
        c1 == <<Call("create_space", a1, r1)>>
    IN IF r1.ok
         THEN Outcome(Return("Successfully created a new Confluence space", a1), c1, r1.wiki)
         ELSE Outcome(Except(r1.exc, 409,
                        Return("Error: A space with key '{space_key}' already exists.",
                               <<space_key>>),
                        Return("Error: An API error occurred while creating the space '{space_key}'.",
                               <<space_key>>),
                        Return("An unexpected error occurred while creating the space '{space_key}'",
                               <<space_key>>)), c1, w)

\* no tool has been invoked yet
NoInvocation ==
    [tool |-> "none", args |-> <<>>, result |-> Return("", <<>>), calls |-> <<>>,
     changed |-> FALSE]

Init ==
    /\ confluence_client \in BOOLEAN
    /\ confluence_crew = CrewNone
    /\ lock = Unlocked
    /\ pc = [t \in Threads |-> "idle"]
    /\ prompt = [t \in Threads |-> ""]
    /\ response = [t \in Threads |-> NoResponse]
    /\ requests = 0
    /\ constructed = 0
    /\ llmFailures = 0
    /\ called_init = [t \in Threads |-> FALSE]
    /\ attempts = [t \in Threads |-> 0]
    /\ llmFailed = [t \in Threads |-> FALSE]
    /\ wiki = InitWiki
    /\ last = NoInvocation

\* a request ends: the thread answers and is free for the next request
Respond(t, r) ==
    /\ response' = [response EXCEPT ![t] = r]
    /\ pc' = [pc EXCEPT ![t] = "idle"]

\* POST /invoke with an empty prompt (lines 128-137)
invoke_agent_empty(t, p) ==
    /\ pc[t] = "idle"
    /\ requests < MaxRequests
    /\ ~Truthy(p)
    /\ requests' = requests + 1
    /\ prompt' = [prompt EXCEPT ![t] = p]
    /\ Respond(t, EmptyPromptResponse)
    /\ called_init' = [called_init EXCEPT ![t] = FALSE]
    /\ attempts' = [attempts EXCEPT ![t] = 0]
    /\ llmFailed' = [llmFailed EXCEPT ![t] = FALSE]
    /\ UNCHANGED <<confluence_client, confluence_crew, lock, constructed, llmFailures, toolVars>>

\* POST /invoke with a non-empty prompt: run_crew(request.prompt) is entered
invoke_agent_call(t, p) ==
    /\ pc[t] = "idle"
    /\ requests < MaxRequests
    /\ Truthy(p)
    /\ requests' = requests + 1
    /\ prompt' = [prompt EXCEPT ![t] = p]
    /\ response' = [response EXCEPT ![t] = NoResponse]
    /\ pc' = [pc EXCEPT ![t] = "l111"]
    /\ called_init' = [called_init EXCEPT ![t] = FALSE]
    /\ attempts' = [attempts EXCEPT ![t] = 0]
    /\ llmFailed' = [llmFailed EXCEPT ![t] = FALSE]
    /\ UNCHANGED <<confluence_client, confluence_crew, lock, constructed, llmFailures, toolVars>>

\* line 111: if confluence_crew is None: _initialize_crew()
run_crew_check_none(t) ==
    /\ pc[t] = "l111"
    /\ IF confluence_crew = CrewNone
         THEN /\ pc' = [pc EXCEPT ![t] = "l46"]
              /\ called_init' = [called_init EXCEPT ![t] = TRUE]
         ELSE /\ pc' = [pc EXCEPT ![t] = "l114"]
              /\ UNCHANGED called_init
    /\ UNCHANGED <<confluence_client, confluence_crew, lock, prompt, response,
                   requests, constructed, llmFailures, attempts, llmFailed, toolVars>>

\* line 46: with crew_initialization_lock (blocks until the lock is free)
initialize_crew_acquire(t) ==
    /\ pc[t] = "l46"
    /\ lock = Unlocked
    /\ lock' = t
    /\ pc' = [pc EXCEPT ![t] = "l47"]
    /\ UNCHANGED <<confluence_client, confluence_crew, prompt, response, requests,
                   constructed, llmFailures, called_init, attempts, llmFailed, toolVars>>

\* lines 47-48: already initialized by another thread: return
initialize_crew_check(t) ==
    /\ pc[t] = "l47"
    /\ IF AlreadyInitialized
         THEN /\ lock' = ReleasedBy(t)
              /\ pc' = [pc EXCEPT ![t] = "l114"]
         ELSE /\ pc' = [pc EXCEPT ![t] = "l54"]
              /\ UNCHANGED lock
    /\ UNCHANGED <<confluence_client, confluence_crew, prompt, response, requests,
                   constructed, llmFailures, called_init, attempts, llmFailed, toolVars>>

\* faulty variant: the except clause of lines 60-62 does not return, so construction
\* goes on after LLM(...) raised
initialize_crew_llm_no_return(t, ok) ==
    /\ pc[t] = "l54"
    /\ attempts' = [attempts EXCEPT ![t] = @ + 1]
    /\ pc' = [pc EXCEPT ![t] = "l65"]
    /\ IF ok
         THEN UNCHANGED <<llmFailed, llmFailures>>
         ELSE /\ llmFailed' = [llmFailed EXCEPT ![t] = TRUE]
              /\ llmFailures' = llmFailures + 1
    /\ UNCHANGED <<confluence_client, confluence_crew, lock, prompt, response, requests,
                   constructed, called_init, toolVars>>

\* lines 53-62: llm = LLM(...); on an exception print and return
initialize_crew_llm(t, ok) ==
    /\ pc[t] = "l54"
    /\ attempts' = [attempts EXCEPT ![t] = @ + 1]
    /\ IF ok
         THEN /\ pc' = [pc EXCEPT ![t] = "l65"]
              /\ UNCHANGED <<lock, llmFailed, llmFailures>>
         ELSE /\ lock' = ReleasedBy(t)
              /\ llmFailed' = [llmFailed EXCEPT ![t] = TRUE]
              /\ llmFailures' = llmFailures + 1
              /\ pc' = [pc EXCEPT ![t] = "l114"]
    /\ UNCHANGED <<confluence_client, confluence_crew, prompt, response, requests,
                   constructed, called_init, toolVars>>

\* faulty variant: a constructor that raises leaves the lock held (an acquire()
\* without a finally in place of the with block)
initialize_crew_build_raise_keeps_lock(t, raises) ==
    /\ pc[t] = "l65"
    /\ IF raises
         THEN /\ Respond(t, ExceptHandler("constructor error"))
              /\ UNCHANGED <<confluence_crew, constructed>>
         ELSE /\ confluence_crew' = Crew(constructed + 1)
              /\ constructed' = constructed + 1
              /\ pc' = [pc EXCEPT ![t] = "l103"]
              /\ UNCHANGED response
    /\ UNCHANGED <<confluence_client, lock, prompt, requests, llmFailures, called_init,
                   attempts, llmFailed, toolVars>>

\* lines 65-102: Agent(...), Task(...), confluence_crew = Crew(...); a constructor
\* that raises leaves the with block and reaches invoke_agent's except clause
initialize_crew_build(t, raises) ==
    /\ pc[t] = "l65"
    /\ IF raises
         THEN /\ lock' = ReleasedBy(t)
              /\ Respond(t, ExceptHandler("constructor error"))
              /\ UNCHANGED <<confluence_crew, constructed>>
         ELSE /\ confluence_crew' = Crew(constructed + 1)
              /\ constructed' = constructed + 1
              /\ pc' = [pc EXCEPT ![t] = "l103"]
              /\ UNCHANGED <<lock, response>>
    /\ UNCHANGED <<confluence_client, prompt, requests, llmFailures, called_init,
                   attempts, llmFailed, toolVars>>

\* line 103 and the end of the with block
initialize_crew_release(t) ==
    /\ pc[t] = "l103"
    /\ lock' = ReleasedBy(t)
    /\ pc' = [pc EXCEPT ![t] = "l114"]
    /\ UNCHANGED <<confluence_client, confluence_crew, prompt, response, requests,
                   constructed, llmFailures, called_init, attempts, llmFailed, toolVars>>

\* faulty variant: run_crew goes on without looking at confluence_client
run_crew_check_client_missing(t) ==
    /\ pc[t] = "l114"
    /\ pc' = [pc EXCEPT ![t] = "l117"]
    /\ UNCHANGED <<confluence_client, confluence_crew, lock, prompt, response, requests,
                   constructed, llmFailures, called_init, attempts, llmFailed, toolVars>>

\* lines 114-115: if not confluence_client: return "Error: ..."
run_crew_check_client(t) ==
    /\ pc[t] = "l114"
    /\ IF ~confluence_client
         THEN Respond(t, Ok("error", ErrClient))
         ELSE /\ pc' = [pc EXCEPT ![t] = "l117"]
              /\ UNCHANGED response
    /\ UNCHANGED <<confluence_client, confluence_crew, lock, prompt, requests,
                   constructed, llmFailures, called_init, attempts, llmFailed, toolVars>>

\* lines 117-118: if not confluence_crew: return "Error: ..."
run_crew_check_crew(t) ==
    /\ pc[t] = "l117"
    /\ IF confluence_crew = CrewNone
         THEN Respond(t, Ok("error", ErrCrew))
         ELSE /\ pc' = [pc EXCEPT ![t] = "l121"]
              /\ UNCHANGED response
    /\ UNCHANGED <<confluence_client, confluence_crew, lock, prompt, requests,
                   constructed, llmFailures, called_init, attempts, llmFailed, toolVars>>

\* line 121: confluence_crew.tasks[0].description = prompt
run_crew_set_description(t) ==
    /\ pc[t] = "l121"
    /\ confluence_crew' = [confluence_crew EXCEPT !.tasks[1].description = prompt[t]]
    /\ pc' = [pc EXCEPT ![t] = "l123"]
    /\ UNCHANGED <<confluence_client, lock, prompt, response, requests,
                   constructed, llmFailures, called_init, attempts, llmFailed, toolVars>>

\* line 123: return confluence_crew.kickoff(): the task runs with the description
\* it holds now; an exception reaches invoke_agent's except clause
run_crew_kickoff(t, raises) ==
    /\ pc[t] = "l123"
    /\ IF raises
         THEN Respond(t, ExceptHandler("kickoff error"))
         ELSE Respond(t, Ok("crew_output", confluence_crew.tasks[1].description))
    /\ UNCHANGED <<confluence_client, confluence_crew, lock, prompt, requests,
                   constructed, llmFailures, called_init, attempts, llmFailed, toolVars>>

Next ==
    \E t \in Threads :
        \/ \E p \in Prompts : invoke_agent_empty(t, p)
        \/ \E p \in Prompts : invoke_agent_call(t, p)
        \/ run_crew_check_none(t)
        \/ initialize_crew_acquire(t)
        \/ initialize_crew_check(t)
        \/ \E ok \in BOOLEAN : initialize_crew_llm(t, ok)
        \/ \E raises \in BOOLEAN : initialize_crew_build(t, raises)
        \/ initialize_crew_release(t)
        \/ run_crew_check_client(t)
        \/ run_crew_check_crew(t)
        \/ run_crew_set_description(t)
        \/ \E raises \in BOOLEAN : run_crew_kickoff(t, raises)

Spec == Init /\ [][Next]_vars

\* the steps of thread t inside run_crew (everything but the arrival of a request)
ThreadStep(t) ==
    \/ run_crew_check_none(t)
    \/ initialize_crew_check(t)
    \/ \E ok \in BOOLEAN : initialize_crew_llm(t, ok)
    \/ \E raises \in BOOLEAN : initialize_crew_build(t, raises)
    \/ initialize_crew_release(t)
    \/ run_crew_check_client(t)
    \/ run_crew_check_crew(t)
    \/ run_crew_set_description(t)
    \/ \E raises \in BOOLEAN : run_crew_kickoff(t, raises)

\* the server with one non-empty prompt text besides the empty prompt (the text
\* of a prompt has no part in initialization)
FairNext ==
    \E t \in Threads :
        \/ invoke_agent_empty(t, "")
        \/ invoke_agent_call(t, "prompt A")
        \/ initialize_crew_acquire(t)
        \/ ThreadStep(t)

\* fair scheduling: a thread that can take a step eventually takes one (the
\* constructors and kickoff terminate), and a thread waiting for the lock gets it
\* if the lock is free again and again
FairSpec ==
    /\ Init /\ [][FairNext]_vars
    /\ \A t \in Threads : WF_vars(ThreadStep(t))
    /\ \A t \in Threads : SF_vars(initialize_crew_acquire(t))

(* ----------------------- tool invocations ------------------------------ *)

\* (changed: the invocation left the site different from what it found)
\* the agent invokes a tool: the outcome becomes the last invocation
Invoked(tool, args, out) ==
    /\ last' = [tool |-> tool, args |-> args, result |-> out.result, calls |-> out.calls,
                changed |-> out.wiki # wiki]
    /\ wiki' = out.wiki
    /\ UNCHANGED <<confluence_client, crewVars>>

call_get_page_details ==
    \E page_id \in PageArgs, env \in Envs(1) :
        Invoked("get_page_details", <<page_id>>, get_page_details(page_id, wiki, env))

call_search_pages ==
    \E query \in QueryArgs, space_key \in SpaceArgs, env \in Envs(1) :
        Invoked("search_pages", <<query, space_key>>,
                search_pages(query, space_key, wiki, env))

\* the site allots the new page an unused id
call_create_page ==
    /\ \E id \in PageIds : ~wiki.pages[id].exists
    /\ \E space_key \in SpaceKeys, env \in Envs(1) :
        Invoked("create_page", <<space_key, "T1", "B1", NoneStr>>,
                create_page(space_key, "T1", "B1", NoneStr, wiki, env))

call_delete_page ==
    \E page_id \in PageArgs, env \in Envs(1) :
        Invoked("delete_page", <<page_id>>, delete_page(page_id, wiki, env))

call_update_page ==
    \E page_id \in PageArgs, title \in TitleArgs, body \in BodyArgs, env \in Envs(4) :
        Invoked("update_page", <<page_id, title, body>>,
                update_page(page_id, title, body, wiki, env))

call_add_comment_to_page ==
    \E page_id \in PageArgs, env \in Envs(2) :
        Invoked("add_comment_to_page", <<page_id, "c">>,
                add_comment_to_page(page_id, "c", wiki, env))

call_create_space ==
    \E space_key \in SpaceKeys, env \in Envs(1) :
        Invoked("create_space", <<space_key, "Notebooks">>,
                create_space(space_key, "Notebooks", wiki, env))

ToolNext ==
    \/ call_get_page_details
    \/ call_search_pages
    \/ call_create_page
    \/ call_delete_page
    \/ call_update_page
    \/ call_add_comment_to_page
    \/ call_create_space

ToolSpec == Init /\ [][ToolNext]_vars

(* ------------------------------ claims --------------------------------- *)

\* the positions of run_crew after `if confluence_crew is None: _initialize_crew()`
AfterInit == {"l114", "l117", "l121", "l123"}

\* a crew with its agent and its task set
FullyBuilt(c) ==
    /\ c.agents = <<"Confluence Expert">>
    /\ Len(c.tasks) = 1
    /\ c.tasks[1].agent = "Confluence Expert"

\* C1: however the threads interleave, Crew(...) is constructed at most once and
\* confluence_crew is non-None exactly when that one construction has happened
\* (so it is never reset and never replaced by a second instance); the instance
\* is fully built (agent, task, crew); and every caller past the initialization
\* step whose LLM construction did not fail sees that instance.
C1_SingleConstruction ==
    /\ constructed <= 1
    /\ (confluence_crew # CrewNone) <=> (constructed = 1)
    /\ confluence_crew # CrewNone => confluence_crew.id = 1 /\ FullyBuilt(confluence_crew)
    /\ \A t \in Threads :
         (pc[t] \in AfterInit /\ ~llmFailed[t]) => confluence_crew # CrewNone

\* two calls raced through _initialize_crew: one built the crew, the other found it
\* built under the lock, and both are past initialization with the same instance
C1_Witness ==
    \E t, u \in Threads :
        /\ t # u
        /\ called_init[t] /\ attempts[t] = 1 /\ ~llmFailed[t]
        /\ called_init[u] /\ attempts[u] = 0
        /\ pc[t] \in {"l121", "l123"} /\ pc[u] \in {"l121", "l123"}
        /\ confluence_crew.id = 1

\* C2: POST /invoke with an empty prompt is answered with status 400, and
\* run_crew is not entered for that request.
C2_EmptyPromptIs400 ==
    \A t \in Threads :
        ~Truthy(prompt[t]) =>
            /\ pc[t] = "idle"
            /\ response[t] # NoResponse => response[t].status = 400

\* C3: no tool wrapper lets an exception escape: every invocation returns text.
C3_NoExceptionEscapes == last.result.kind = "return"

C5_FailedRequestNeverRuns ==
    \A t \in Threads : llmFailed[t] => pc[t] \notin {"l121", "l123"}

\* C5 (amended): a call makes at most one LLM construction attempt; a failed
\* attempt is not retried and does not go on to build the crew; while
\* confluence_crew is still None the request whose attempt failed does not run
\* the pipeline and is answered with an error string; and every call that is
\* past initialization with confluence_crew still None did make its own attempt.
C5_FailureLeavesUninitialized ==
    \A t \in Threads :
        /\ attempts[t] <= 1
        /\ llmFailed[t] => attempts[t] = 1 /\ pc[t] \notin {"l54", "l65", "l103"}
        /\ (llmFailed[t] /\ confluence_crew = CrewNone) =>
              /\ pc[t] \in {"l114", "l117", "idle"}
              /\ pc[t] = "idle" =>
                    response[t] \in {Ok("error", ErrClient), Ok("error", ErrCrew)}
        /\ (pc[t] \in AfterInit /\ confluence_crew = CrewNone) => llmFailed[t]
        /\ (pc[t] = "idle" /\ response[t] = Ok("error", ErrCrew)) => llmFailed[t]

\* two attempts failed, a request was answered "crew is not initialized", and a
\* later attempt built the crew
C5_Witness ==
    /\ llmFailures >= 2
    /\ confluence_crew # CrewNone
    /\ \E t \in Threads :
         llmFailed[t] /\ pc[t] = "idle" /\ response[t] = Ok("error", ErrCrew)

\* C6: with neither query nor space_key search_pages issues no remote call, and
\* with neither title nor body update_page issues no remote call (it does not
\* fetch the page); with the client set the result is the usage error.
C6_UsageErrorBeforeRemoteCall ==
    /\ (last.tool = "search_pages" /\ ~Truthy(last.args[1]) /\ ~Truthy(last.args[2])) =>
          /\ last.calls = <<>>
          /\ confluence_client => last.result = SearchUsage
    /\ (last.tool = "update_page" /\ ~Truthy(last.args[2]) /\ ~Truthy(last.args[3])) =>
          /\ last.calls = <<>>
          /\ confluence_client => last.result = UpdateUsage

\* update_page was invoked with neither title nor body, the client being set
C6_Witness ==
    /\ confluence_client
    /\ last.tool = "update_page"
    /\ ~Truthy(last.args[2]) /\ ~Truthy(last.args[3])
    /\ last.result = UpdateUsage

\* C7: when update_page reaches its write, a field the caller did not supply is
\* written with the value just fetched (the title from the first fetch, the body
\* from the second), and after a successful write the page holds that value.
C7_UntouchedFieldPreserved ==
    (last.tool = "update_page" /\ Len(last.calls) >= 3) =>
        LET fetched_title == last.calls[1].got[1]
            fetched_body == last.calls[2].got[2]
            write == last.calls[3]
        IN /\ write.op = "update_page"
           /\ ~Truthy(last.args[3]) =>
                 /\ write.args[3] = fetched_body
                 /\ write.ok => wiki.pages[last.args[1]].body = fetched_body
           /\ ~Truthy(last.args[2]) =>
                 /\ write.args[2] = fetched_title
                 /\ write.ok => wiki.pages[last.args[1]].title = fetched_title

\* update_page was invoked with a new title only and its write succeeded
C7_Witness ==
    /\ last.tool = "update_page"
    /\ last.args[2] = "T1" /\ ~Truthy(last.args[3])
    /\ Len(last.calls) >= 3
    /\ last.calls[3].ok
    /\ last.calls[2].got[2] = "B1"
    /\ wiki.pages["101"] = Page("T1", "B1", "DEV")

\* the exception that ended the last invocation's remote calls, if any
LastExc == IF last.calls = <<>> THEN NoExc ELSE last.calls[Len(last.calls)].exc

\* C8: an ApiError answering 404 in get_page_details, update_page or delete_page
\* gives the "was not found" message with the page id, an ApiError answering 409
\* in create_space gives the "already exists" message with the space key, and an
\* ApiError answering any other status gives the tool's generic API-error text.
C8_StatusMessages ==
    LastExc.type = "ApiError" =>
        /\ last.tool \in {"get_page_details", "update_page", "delete_page"} =>
              IF LastExc.status = 404
                THEN last.result = PageNotFound(last.args[1])
                ELSE /\ last.result.kind = "return"
                     /\ last.result # PageNotFound(last.args[1])
                     /\ last.result.arg = <<last.args[1]>>
        /\ last.tool = "create_space" =>
              IF LastExc.status = 409
                THEN last.result =
                       Return("Error: A space with key '{space_key}' already exists.",
                              <<last.args[1]>>)
                ELSE last.result =
                       Return("Error: An API error occurred while creating the space '{space_key}'.",
                              <<last.args[1]>>)

\* the original statement of C9: one invocation issues at most one remote call
C9_AtMostOneCall == Len(last.calls) <= 1

\* C9 (amended): get_page_details, search_pages, create_page, delete_page and
\* create_space issue at most one remote call per invocation, add_comment_to_page
\* at most two and update_page at most four.
C9_CallCounts ==
    /\ last.tool \in {"get_page_details", "search_pages", "create_page", "delete_page",
                      "create_space"} => Len(last.calls) <= 1
    /\ last.tool = "add_comment_to_page" =>
          /\ Len(last.calls) <= 2
          /\ \A i \in 1..Len(last.calls) :
                last.calls[i].op = <<"add_comment", "get_page_by_id">>[i]
    /\ last.tool = "update_page" =>
          /\ Len(last.calls) <= 4
          /\ \A i \in 1..Len(last.calls) :
                last.calls[i].op =
                  <<"get_page_by_id", "get_page_by_id", "update_page", "get_page_by_id">>[i]

\* one update_page invocation issued four remote calls
C9_Witness ==
    /\ last.tool = "update_page"
    /\ Len(last.calls) = 4
    /\ last.result.msg = "Successfully updated page with ID '{page_id}'."

\* C10: no lock covers lines 121-123: a thread writing the description or running
\* kickoff never holds crew_initialization_lock, so nothing orders one call's
\* write and kickoff against another call's.
C10_WriteAndKickoffUnlocked ==
    \A t \in Threads : pc[t] \in {"l121", "l123"} => lock # t

\* the race: a call's kickoff ran with the description another call in flight had
\* written, not with its own prompt
C10_Witness ==
    \E t, u \in Threads :
        /\ t # u
        /\ pc[u] = "l123"
        /\ prompt[u] # prompt[t]
        /\ pc[t] = "idle"
        /\ response[t] = Ok("crew_output", prompt[u])

\* C11: with confluence_client unset no call of run_crew gets past line 115: the
\* task description is never overwritten (a crew that was constructed keeps the
\* description it was built with) and kickoff is never called; a run_crew call
\* that returns does so with the client error string, answered with status 200
\* (the only other answer is the 500 of a constructor that raised during
\* initialization).
C11_DisabledClientNeverRuns ==
    ~confluence_client =>
        /\ \A t \in Threads : pc[t] \notin {"l117", "l121", "l123"}
        /\ confluence_crew # CrewNone =>
              confluence_crew.tasks[1].description = Crew(1).tasks[1].description
        /\ \A t \in Threads :
              (pc[t] = "idle" /\ Truthy(prompt[t])) =>
                  /\ response[t] \in {Ok("error", ErrClient),
                                      ExceptHandler("constructor error")}
                  /\ response[t].status = 200 => response[t] = Ok("error", ErrClient)

\* the client is unset, a call constructed the crew and was then answered with
\* the client error string
C11_Witness ==
    /\ ~confluence_client
    /\ confluence_crew # CrewNone
    /\ \E t \in Threads :
         /\ pc[t] = "idle"
         /\ called_init[t] /\ attempts[t] = 1 /\ ~llmFailed[t]
         /\ response[t] = Ok("error", ErrClient)


\* the positions of _initialize_crew at which the thread holds the lock
Holding == {"l47", "l54", "l65", "l103"}

\* C12: crew_initialization_lock is held exactly by a thread inside the with
\* block (so it is free again after every exit: already initialized, LLM
\* construction failed, construction succeeded, construction raised), and under
\* fair scheduling every thread waiting for the lock eventually acquires it and
\* leaves _initialize_crew.
C12_LockReleasedOnEveryExit ==
    /\ [](\A t \in Threads : (lock = t) <=> (pc[t] \in Holding))
    /\ []((lock = Unlocked) <=> (\A t \in Threads : pc[t] \notin Holding))
    /\ \A t \in Threads : (pc[t] = "l46") ~> (pc[t] \in AfterInit \cup {"idle"})

\* a thread waits for the lock while another holds it during construction
C12_Witness ==
    \E t, u \in Threads :
        /\ t # u
        /\ lock = t /\ pc[t] = "l65"
        /\ pc[u] = "l46"


\* the last invocation returned text that is not the tool's success message
ReturnedError ==
    /\ last.result.kind = "return"
    /\ last.result.msg \notin
         {"Successfully updated page with ID '{page_id}'.",
          "Successfully added a comment to page with ID '{page_id}'."}

\* the last invocation's mutating remote call succeeded
WriteTookEffect ==
    \E i \in 1..Len(last.calls) :
        last.calls[i].op \in {"update_page", "add_comment"} /\ last.calls[i].ok

\* the original statement of C13: an error message returned by update_page or
\* add_comment_to_page implies that the mutating remote call did not take effect
C13_ErrorImpliesNoEffect ==
    (last.tool \in {"update_page", "add_comment_to_page"} /\ ReturnedError) =>
        ~WriteTookEffect /\ ~last.changed

\* C13 (amended): when update_page or add_comment_to_page returns an error
\* message, the mutating remote call either did not take effect (the site is as
\* it was), or it succeeded and the call that failed is the get_page_by_id that
\* follows it to build the URL (the fourth call of update_page, the second of
\* add_comment_to_page).
C13_ErrorAfterWriteOnlyFromUrlFetch ==
    (last.tool \in {"update_page", "add_comment_to_page"} /\ ReturnedError) =>
        IF WriteTookEffect
          THEN LET n == Len(last.calls)
               IN /\ n = (IF last.tool = "update_page" THEN 4 ELSE 2)
                  /\ last.calls[n].op = "get_page_by_id" /\ ~last.calls[n].ok
                  /\ last.calls[n - 1].op \in {"update_page", "add_comment"}
                  /\ last.calls[n - 1].ok
          ELSE ~last.changed

\* update_page changed the page and then returned an error message, its last
\* get_page_by_id having failed
C13_Witness ==
    /\ last.tool = "update_page"
    /\ ReturnedError
    /\ WriteTookEffect
    /\ last.changed
    /\ wiki.pages["101"].title = "T1"


=============================================================================
